---- MODULE Spec2Model ----
(***************************************************************************)
(* gostd_settings (src/src/lib.rs): a property store, a                    *)
(* Mutex<HashMap<String, String>>, that is loaded from and stored to a     *)
(* line-oriented text stream.                                              *)
(*                                                                         *)
(* A String is modelled as the sequence of its characters, so that         *)
(* trimming, splitting, joining and line reading are computed character by *)
(* character as gostd::strings and BufReader compute them.                 *)
(***************************************************************************)
EXTENDS Integers, Sequences, FiniteSets, TLC

VARIABLES
    object,   \* store id -> the HashMap of that Properties instance
    mutex,    \* store id -> thread holding the MutexGuard of the store, 0 = unlocked
    file,     \* the file at the path used by store_to_file / load_from_file,
              \* with the device that takes its writes
    pc,       \* thread -> position in the call it is executing
    call,     \* thread -> the Settings method it called last, with its arguments
    sp,       \* thread -> key and value parameters of the running set_property
    br,       \* thread -> bytes the BufReader of load has not returned yet
    line,     \* thread -> the `line` buffer of load
    buf,      \* thread -> the Buffer of store
    iter,     \* thread -> keys the map iterator of store has not visited yet
    w,        \* thread -> the writer handed to store: the bytes it has received
              \* and the device behind it
    ret,      \* thread -> value returned by the call completed last
    ncalls,   \* number of Settings calls made so far
    sliced    \* history: store id -> key -> the list whose set_property_slice wrote the key last

vars == <<object, mutex, file, pc, call, sp, br, line, buf, iter, w, ret, ncalls, sliced>>

(***************************************************************************)
(* Bounds of the model.                                                    *)
(***************************************************************************)
\* longest input stream enumerated exhaustively by SpecLoad
MaxLen == 4
\* Settings calls made by the two threads of Spec together
MaxCalls == 3
\* entries the sequential client of SpecSeq puts into a store
MaxEntries == 3
\* most bytes a writer that accepts only part of the buffer takes
MaxShort == 1

Threads == {1, 2}

Stores == {"p", "q"}

(***************************************************************************)
(* Strings.                                                                *)
(***************************************************************************)
HttpPort == <<"H", "t", "t", "p", "P", "o", "r", "t">>

V8081 == <<"8", "0", "8", "1">>

MongoServer == <<"M", "o", "n", "g", "o", "S", "e", "r", "v", "e", "r">>

MongoUrl == <<"m", "o", "n", "g", "o", "d", "b", ":", "/", "/", "1", "0", ".", "1", "1", ".", "1", ".", "5", ",", "1", "0", ".", "1", "1", ".", "1", ".", "6", ",", "1", "0", ".", "1", "1", ".", "1", ".", "7", "/", "?", "r", "e", "p", "l", "i", "c", "a", "S", "e", "t", "=", "m", "y", "t", "e", "s", "t">>

LogLevel == <<"L", "o", "g", "L", "e", "v", "e", "l">>

Debug == <<"D", "e", "b", "u", "g">>

Info == <<"I", "n", "f", "o">>

Warn == <<"W", "a", "r", "n">>

ExMalformed == <<"N", "o", "E", "q", "u", "a", "l", "s", "H", "e", "r", "e", "\n", "Y", " ", "=", " ", "2", "\n">>

ExComment == <<"#", " ", "c", "o", "m", "m", "e", "n", "t", "\n", "\n", " ", " ", "\n", "A", " ", "=", " ", "1", "\n">>

ExTrim == <<" ", " ", "X", " ", " ", " ", "=", " ", " ", " ", "h", "e", "l", "l", "o", " ", "w", "o", "r", "l", "d", " ", " ", "\n">>

ExTwoEq == <<"a", " ", "=", " ", "b", "=", "c">>

\* characters of the streams SpecLoad enumerates
Alphabet == {"a", "=", " ", "#", "/", "*", "\n"}

Strs(n) == UNION {[1..m -> Alphabet] : m \in 0..n}

\* the white space strings::TrimSpace removes
WhiteSpace == {" ", "\t", "\n", "\r"}

Min(a, b) == IF a < b THEN a ELSE b

Prefix(s, n) == SubSeq(s, 1, n)

Suffix(s, n) == SubSeq(s, n, Len(s))

\* strings::TrimSpace(s)
RECURSIVE TrimLeft(_)
TrimLeft(s) ==
    IF s # <<>> /\ Head(s) \in WhiteSpace THEN TrimLeft(Tail(s)) ELSE s

RECURSIVE TrimRight(_)
TrimRight(s) ==
    IF s # <<>> /\ s[Len(s)] \in WhiteSpace THEN TrimRight(Prefix(s, Len(s) - 1)) ELSE s

TrimSpace(s) == TrimRight(TrimLeft(s))

\* strings::HasPrefix(s, prefix)
HasPrefix(s, prefix) ==
    Len(s) >= Len(prefix) /\ Prefix(s, Len(prefix)) = prefix

\* position of the first c in s, 0 when s holds no c
Index(s, c) ==
    IF \E i \in 1..Len(s) : s[i] = c
    THEN CHOOSE i \in 1..Len(s) : s[i] = c /\ \A j \in 1..(i - 1) : s[j] # c
    ELSE 0

RECURSIVE SplitDropEmpty(_, _)
SplitDropEmpty(s, c) ==
    LET i == Index(s, c)
    IN  IF i = 0 THEN (IF s = <<>> THEN <<>> ELSE <<s>>)
        ELSE (IF i = 1 THEN <<>> ELSE <<Prefix(s, i - 1)>>)
             \o SplitDropEmpty(Suffix(s, i + 1), c)

\* strings::Split(s, sep) for a separator of one character: every piece
\* between two separators, Count(s, sep) + 1 pieces in all
RECURSIVE Split(_, _)
Split(s, c) ==
    LET i == Index(s, c)
    IN  IF i = 0 THEN <<s>>
        ELSE <<Prefix(s, i - 1)>> \o Split(Suffix(s, i + 1), c)

\* strings::Join(elems, sep)
RECURSIVE Join(_, _)
Join(elems, c) ==
    IF elems = <<>> THEN <<>>
    ELSE IF Len(elems) = 1 THEN elems[1]
    ELSE elems[1] \o <<c>> \o Join(Tail(elems), c)

(***************************************************************************)
(* impl Properties                                                         *)
(***************************************************************************)
\* Properties::line: what it appends to the buffer
LineNoNewline(key, value) == key \o <<" ", "=", " ">> \o value

Line(key, value) == key \o <<" ", "=", " ">> \o value \o <<"\n">>

is_comment_line_no_slash(l) ==
    \/ Len(l) = 0
    \/ HasPrefix(l, <<"#">>)
    \/ HasPrefix(l, <<"/", "*">>)

\* Properties::is_comment_line
is_comment_line(l) ==
    \/ Len(l) = 0
    \/ HasPrefix(l, <<"#">>)
    \/ HasPrefix(l, <<"/", "/">>)
    \/ HasPrefix(l, <<"/", "*">>)

\* Properties::parse_line up to its call of set_property: "skip" for a
\* comment or blank line, "panic" when split_strs[1] is out of bounds
parse_line(l) ==
    LET line_str == TrimSpace(l)
        split_strs == Split(line_str, "=")
    IN  IF is_comment_line(line_str)
        THEN [kind |-> "skip", key |-> <<>>, value |-> <<>>]
        ELSE IF Len(split_strs) < 2
        THEN [kind |-> "panic", key |-> TrimSpace(split_strs[1]), value |-> <<>>]
        ELSE [kind |-> "set", key |-> TrimSpace(split_strs[1]),
              value |-> TrimSpace(split_strs[2])]

InsertOnly(m, k, v) == [x \in {k} |-> v]

\* HashMap::insert(key, value)
Insert(m, k, v) == [x \in (DOMAIN m) \cup {k} |-> IF x = k THEN v ELSE m[x]]

\* BufRead::read_line: the bytes up to and including the first newline, or
\* all that is left
read_line(s) ==
    LET i == Index(s, "\n") IN IF i = 0 THEN s ELSE Prefix(s, i)

EmptyMap == [x \in {} |-> <<>>]

NoCall ==
    [op |-> "none", s |-> "p", key |-> <<>>, value |-> <<>>, values |-> <<>>,
     stream |-> <<>>]

NoRet == [tag |-> "none", val |-> <<>>]

Ok == [tag |-> "Ok", val |-> <<>>]

Err == [tag |-> "Err", val |-> <<>>]

Unit == [tag |-> "unit", val |-> <<>>]

\* a device that takes every byte of a write call
Roomy == [short |-> FALSE, room |-> 0]

\* the devices behind a writer: one that takes every byte, and those that
\* take at most `room` bytes of one write call (a pipe, a socket, a fixed
\* slice, a full disk)
Devices == {Roomy} \cup {[short |-> TRUE, room |-> n] : n \in 0..MaxShort}

\* builder().file_type_properties().build(): Properties::default()
Init ==
    /\ object = [s \in Stores |-> EmptyMap]
    /\ mutex = [s \in Stores |-> 0]
    /\ file = [exists |-> FALSE, data |-> <<>>, dev |-> Roomy]
    /\ pc = [t \in Threads |-> "idle"]
    /\ call = [t \in Threads |-> NoCall]
    /\ sp = [t \in Threads |-> [key |-> <<>>, value |-> <<>>]]
    /\ br = [t \in Threads |-> <<>>]
    /\ line = [t \in Threads |-> <<>>]
    /\ buf = [t \in Threads |-> <<>>]
    /\ iter = [t \in Threads |-> {}]
    /\ w = [t \in Threads |-> [data |-> <<>>, dev |-> Roomy]]
    /\ ret = [t \in Threads |-> NoRet]
    /\ ncalls = 0
    /\ sliced = [s \in Stores |-> EmptyMap]

\* a caller's call of a Settings method: the arguments are recorded and
\* the thread enters the method
Enter(t, c, entry) ==
    /\ pc[t] = "idle"
    /\ call' = [call EXCEPT ![t] = c]
    /\ pc' = [pc EXCEPT ![t] = entry]
    /\ ret' = [ret EXCEPT ![t] = NoRet]

UnlockedAlways(s) == TRUE

\* Mutex::lock succeeds only while no guard of the store is alive
Unlocked(s) == mutex[s] = 0

(***************************************************************************)
(* The calls of the Settings methods (trait Settings, lines 50-157)        *)
(***************************************************************************)
CallSetProperty(t, s, k, v) ==
    /\ Enter(t, [NoCall EXCEPT !.op = "set_property", !.s = s, !.key = k, !.value = v],
             "set_lock")
    /\ sp' = [sp EXCEPT ![t] = [key |-> k, value |-> v]]
    /\ UNCHANGED <<object, mutex, file, br, line, buf, iter, w, sliced>>

CallSetPropertySlice(t, s, k, vs) ==
    /\ Enter(t, [NoCall EXCEPT !.op = "set_property_slice", !.s = s, !.key = k,
                                !.values = vs], "slice_join")
    /\ UNCHANGED <<object, mutex, file, sp, br, line, buf, iter, w, sliced>>

CallProperty(t, s, k) ==
    /\ Enter(t, [NoCall EXCEPT !.op = "property", !.s = s, !.key = k], "get_lock")
    /\ UNCHANGED <<object, mutex, file, sp, br, line, buf, iter, w, sliced>>

CallPropertySlice(t, s, k) ==
    /\ Enter(t, [NoCall EXCEPT !.op = "property_slice", !.s = s, !.key = k], "getslice_lock")
    /\ UNCHANGED <<object, mutex, file, sp, br, line, buf, iter, w, sliced>>

CallPropertyNames(t, s) ==
    /\ Enter(t, [NoCall EXCEPT !.op = "property_names", !.s = s], "names_lock")
    /\ UNCHANGED <<object, mutex, file, sp, br, line, buf, iter, w, sliced>>

\* load(r): BufReader::new(r), String::new()
CallLoad(t, s, r) ==
    /\ Enter(t, [NoCall EXCEPT !.op = "load", !.s = s, !.stream = r], "load_read")
    /\ br' = [br EXCEPT ![t] = r]
    /\ line' = [line EXCEPT ![t] = <<>>]
    /\ UNCHANGED <<object, mutex, file, sp, buf, iter, w, sliced>>

\* store(w) with a writer on device d that has received nothing yet:
\* Buffer::new()
CallStore(t, s, d) ==
    /\ Enter(t, [NoCall EXCEPT !.op = "store", !.s = s], "store_lock")
    /\ buf' = [buf EXCEPT ![t] = <<>>]
    /\ w' = [w EXCEPT ![t] = [data |-> <<>>, dev |-> d]]
    /\ UNCHANGED <<object, mutex, file, sp, br, line, iter, sliced>>

CallStoreToFile(t, s) ==
    /\ Enter(t, [NoCall EXCEPT !.op = "store_to_file", !.s = s], "file_create")
    /\ UNCHANGED <<object, mutex, file, sp, br, line, buf, iter, w, sliced>>

CallLoadFromFile(t, s) ==
    /\ Enter(t, [NoCall EXCEPT !.op = "load_from_file", !.s = s], "file_open")
    /\ UNCHANGED <<object, mutex, file, sp, br, line, buf, iter, w, sliced>>

(***************************************************************************)
(* set_property_slice (lines 237-240)                                      *)
(***************************************************************************)
\* let value = strings::Join(values, ","); self.set_property(key, &value)
SliceJoin(t) ==
    /\ pc[t] = "slice_join"
    /\ sp' = [sp EXCEPT ![t] = [key |-> call[t].key, value |-> Join(call[t].values, ",")]]
    /\ pc' = [pc EXCEPT ![t] = "set_lock"]
    /\ UNCHANGED <<object, mutex, file, call, br, line, buf, iter, w, ret, ncalls, sliced>>

(***************************************************************************)
(* property (lines 218-223) and property_slice (lines 225-235)             *)
(***************************************************************************)
Some(v) == [tag |-> "Some", val |-> v]

None == [tag |-> "None", val |-> <<>>]

\* match self.object.lock().unwrap()
PropertyLock(t) ==
    /\ pc[t] = "get_lock"
    /\ Unlocked(call[t].s)
    /\ mutex' = [mutex EXCEPT ![call[t].s] = t]
    /\ pc' = [pc EXCEPT ![t] = "get_read"]
    /\ UNCHANGED <<object, file, call, sp, br, line, buf, iter, w, ret, ncalls, sliced>>

\* .get(key) { Some(value) => Some(value.to_owned()), None => None }
PropertyGet(t) ==
    LET m == object[call[t].s]
        k == call[t].key
    IN  /\ pc[t] = "get_read"
        /\ ret' = [ret EXCEPT ![t] = IF k \in DOMAIN m THEN Some(m[k]) ELSE None]
        /\ mutex' = [mutex EXCEPT ![call[t].s] = 0]
        /\ pc' = [pc EXCEPT ![t] = "idle"]
        /\ UNCHANGED <<object, file, call, sp, br, line, buf, iter, w, ncalls, sliced>>

PropertySliceLock(t) ==
    /\ pc[t] = "getslice_lock"
    /\ Unlocked(call[t].s)
    /\ mutex' = [mutex EXCEPT ![call[t].s] = t]
    /\ pc' = [pc EXCEPT ![t] = "getslice_read"]
    /\ UNCHANGED <<object, file, call, sp, br, line, buf, iter, w, ret, ncalls, sliced>>

\* .get(key) { Some(value) => Some(strings::Split(value, ",")...), None => None }
PropertySliceGet(t) ==
    LET m == object[call[t].s]
        k == call[t].key
    IN  /\ pc[t] = "getslice_read"
        /\ ret' = [ret EXCEPT ![t] = IF k \in DOMAIN m THEN Some(Split(m[k], ",")) ELSE None]
        /\ mutex' = [mutex EXCEPT ![call[t].s] = 0]
        /\ pc' = [pc EXCEPT ![t] = "idle"]
        /\ UNCHANGED <<object, file, call, sp, br, line, buf, iter, w, ncalls, sliced>>

(***************************************************************************)
(* property_names (lines 290-296)                                          *)
(***************************************************************************)
\* the orders in which a HashMap may iterate over the keys ks
Orders(ks) ==
    {o \in [1..Cardinality(ks) -> ks] : \A i, j \in 1..Cardinality(ks) : o[i] = o[j] => i = j}

\* for (k, _) in self.object.lock().unwrap().iter()
NamesLock(t) ==
    /\ pc[t] = "names_lock"
    /\ Unlocked(call[t].s)
    /\ mutex' = [mutex EXCEPT ![call[t].s] = t]
    /\ pc' = [pc EXCEPT ![t] = "names_iter"]
    /\ UNCHANGED <<object, file, call, sp, br, line, buf, iter, w, ret, ncalls, sliced>>

\* the loop pushes every key, in the map's order, while the guard is alive
NamesCollect(t) ==
    /\ pc[t] = "names_iter"
    /\ \E o \in Orders(DOMAIN object[call[t].s]) :
          ret' = [ret EXCEPT ![t] = [tag |-> "names", val |-> o]]
    /\ mutex' = [mutex EXCEPT ![call[t].s] = 0]
    /\ pc' = [pc EXCEPT ![t] = "idle"]
    /\ UNCHANGED <<object, file, call, sp, br, line, buf, iter, w, ncalls, sliced>>

(***************************************************************************)
(* store (lines 273-282) and store_to_file (lines 284-288)                 *)
(***************************************************************************)
\* fs::File::create(file_path)? succeeds: the file exists and is empty
FileCreate(t) ==
    /\ pc[t] = "file_create"
    /\ \E d \in Devices : file' = [exists |-> TRUE, data |-> <<>>, dev |-> d]
    /\ buf' = [buf EXCEPT ![t] = <<>>]
    /\ pc' = [pc EXCEPT ![t] = "store_lock"]
    /\ UNCHANGED <<object, mutex, call, sp, br, line, iter, w, ret, ncalls, sliced>>

\* fs::File::create(file_path)? fails
FileCreateErr(t) ==
    /\ pc[t] = "file_create"
    /\ ret' = [ret EXCEPT ![t] = Err]
    /\ pc' = [pc EXCEPT ![t] = "idle"]
    /\ UNCHANGED <<object, mutex, file, call, sp, br, line, buf, iter, w, ncalls, sliced>>

\* self.object.lock().unwrap().iter(): the guard is a temporary of the
\* statement that runs for_each
StoreLock(t) ==
    /\ pc[t] = "store_lock"
    /\ Unlocked(call[t].s)
    /\ mutex' = [mutex EXCEPT ![call[t].s] = t]
    /\ iter' = [iter EXCEPT ![t] = DOMAIN object[call[t].s]]
    /\ pc' = [pc EXCEPT ![t] = "store_iter"]
    /\ UNCHANGED <<object, file, call, sp, br, line, buf, w, ret, ncalls, sliced>>

\* one step of .for_each(|(k, v)| Self::line(&k, &v, &mut buf)), on the entry
\* the iterator yields next
StoreEach(t) ==
    /\ pc[t] = "store_iter"
    /\ \E k \in iter[t] :
          /\ buf' = [buf EXCEPT ![t] = buf[t] \o Line(k, object[call[t].s][k])]
          /\ iter' = [iter EXCEPT ![t] = iter[t] \ {k}]
    /\ UNCHANGED <<object, mutex, file, pc, call, sp, br, line, w, ret, ncalls, sliced>>

\* the iterator is exhausted: the statement ends and the guard is dropped
StoreUnlock(t) ==
    /\ pc[t] = "store_iter"
    /\ iter[t] = {}
    /\ mutex' = [mutex EXCEPT ![call[t].s] = 0]
    /\ pc' = [pc EXCEPT ![t] = "store_write"]
    /\ UNCHANGED <<object, file, call, sp, br, line, buf, iter, w, ret, ncalls, sliced>>

\* the byte count Write::write returns for a buffer of n bytes on device d
Taken(n, d) == IF d.short THEN Min(d.room, n) ELSE n

\* w.write(buf.Bytes().as_slice())? returns Ok(n): the writer took the first
\* n bytes, the count is dropped, and store returns Ok(())
StoreWrite(t) ==
    /\ pc[t] = "store_write"
    /\ IF call[t].op = "store_to_file"
       THEN /\ file' = [file EXCEPT !.data =
                          file.data \o Prefix(buf[t], Taken(Len(buf[t]), file.dev))]
            /\ UNCHANGED w
       ELSE /\ w' = [w EXCEPT ![t].data =
                          w[t].data \o Prefix(buf[t], Taken(Len(buf[t]), w[t].dev))]
            /\ UNCHANGED file
    /\ ret' = [ret EXCEPT ![t] = Ok]
    /\ buf' = [buf EXCEPT ![t] = <<>>]
    /\ pc' = [pc EXCEPT ![t] = "idle"]
    /\ UNCHANGED <<object, mutex, call, sp, br, line, iter, ncalls, sliced>>

\* w.write(buf.Bytes().as_slice())? returns Err(e): store returns it
StoreWriteErr(t) ==
    /\ pc[t] = "store_write"
    /\ ret' = [ret EXCEPT ![t] = Err]
    /\ buf' = [buf EXCEPT ![t] = <<>>]
    /\ pc' = [pc EXCEPT ![t] = "idle"]
    /\ UNCHANGED <<object, mutex, file, call, sp, br, line, iter, w, ncalls, sliced>>

(***************************************************************************)
(* load_from_file (lines 268-271)                                          *)
(***************************************************************************)
\* fs::File::open(file_path)? then self.load(f)
FileOpen(t) ==
    /\ pc[t] = "file_open"
    /\ IF file.exists
       THEN /\ br' = [br EXCEPT ![t] = file.data]
            /\ pc' = [pc EXCEPT ![t] = "load_read"]
            /\ UNCHANGED ret
       ELSE /\ ret' = [ret EXCEPT ![t] = Err]
            /\ pc' = [pc EXCEPT ![t] = "idle"]
            /\ UNCHANGED br
    /\ line' = [line EXCEPT ![t] = <<>>]
    /\ UNCHANGED <<object, mutex, file, call, sp, buf, iter, w, ncalls, sliced>>

(***************************************************************************)
(* set_property (lines 242-247), also reached from set_property_slice and  *)
(* from parse_line                                                         *)
(***************************************************************************)
\* self.object.lock().unwrap()
SetLock(t) ==
    /\ pc[t] = "set_lock"
    /\ Unlocked(call[t].s)
    /\ mutex' = [mutex EXCEPT ![call[t].s] = t]
    /\ pc' = [pc EXCEPT ![t] = "set_insert"]
    /\ UNCHANGED <<object, file, call, sp, br, line, buf, iter, w, ret, ncalls, sliced>>

\* .insert(key.to_owned(), value.to_owned()); the guard is dropped at the end
\* of the statement and set_property returns: to load's loop, where
\* line.clear() follows, or to the caller
SetInsert(t) ==
    LET s == call[t].s
        fromLoad == call[t].op \in {"load", "load_from_file"}
    IN  /\ pc[t] = "set_insert"
        /\ object' = [object EXCEPT ![s] = Insert(object[s], sp[t].key, sp[t].value)]
        /\ mutex' = [mutex EXCEPT ![s] = 0]
        /\ sliced' = [sliced EXCEPT ![s] =
                        IF call[t].op = "set_property_slice"
                        THEN Insert(sliced[s], sp[t].key, call[t].values)
                        ELSE [x \in (DOMAIN sliced[s]) \ {sp[t].key} |-> sliced[s][x]]]
        /\ pc' = [pc EXCEPT ![t] = IF fromLoad THEN "load_read" ELSE "idle"]
        /\ line' = [line EXCEPT ![t] = <<>>]
        /\ ret' = [ret EXCEPT ![t] = IF fromLoad THEN ret[t] ELSE Unit]
        /\ sp' = [sp EXCEPT ![t] = [key |-> <<>>, value |-> <<>>]]
        /\ UNCHANGED <<file, call, br, buf, iter, w, ncalls>>

(***************************************************************************)
(* load (lines 249-266)                                                    *)
(***************************************************************************)
\* br.read_line(&mut line) returns Ok(i): i = 0 ends the loop with Ok(()),
\* otherwise line holds the next line, its newline included
LoadRead(t) ==
    /\ pc[t] = "load_read"
    /\ IF br[t] = <<>>
       THEN /\ pc' = [pc EXCEPT ![t] = "idle"]
            /\ ret' = [ret EXCEPT ![t] = Ok]
            /\ UNCHANGED <<br, line>>
       ELSE /\ line' = [line EXCEPT ![t] = read_line(br[t])]
            /\ br' = [br EXCEPT ![t] = Suffix(br[t], Len(read_line(br[t])) + 1)]
            /\ pc' = [pc EXCEPT ![t] = "load_parse"]
            /\ UNCHANGED ret
    /\ UNCHANGED <<object, mutex, file, call, sp, buf, iter, w, ncalls, sliced>>

\* br.read_line(&mut line) returns Err(err): the reader failed
LoadReadErr(t) ==
    /\ pc[t] = "load_read"
    /\ pc' = [pc EXCEPT ![t] = "idle"]
    /\ ret' = [ret EXCEPT ![t] = Err]
    /\ line' = [line EXCEPT ![t] = <<>>]
    /\ UNCHANGED <<object, mutex, file, call, sp, br, buf, iter, w, ncalls, sliced>>

\* self.parse_line(&line) up to its call of set_property
LoadParse(t) ==
    LET p == parse_line(line[t])
    IN  /\ pc[t] = "load_parse"
        /\ \/ /\ p.kind = "skip"
              /\ pc' = [pc EXCEPT ![t] = "load_read"]
              /\ line' = [line EXCEPT ![t] = <<>>]
              /\ UNCHANGED sp
           \/ /\ p.kind = "panic"
              /\ pc' = [pc EXCEPT ![t] = "panicked"]
              /\ UNCHANGED <<line, sp>>
           \/ /\ p.kind = "set"
              /\ sp' = [sp EXCEPT ![t] = [key |-> p.key, value |-> p.value]]
              /\ pc' = [pc EXCEPT ![t] = "set_lock"]
              /\ UNCHANGED line
        /\ UNCHANGED <<object, mutex, file, call, br, buf, iter, w, ret, ncalls, sliced>>

(***************************************************************************)
(* SpecLoad: one thread loads one stream into a new store.  The streams    *)
(* are all the strings over Alphabet of at most MaxLen characters and the  *)
(* examples of the documentation.                                          *)
(***************************************************************************)
LoadStreams == Strs(MaxLen) \cup {ExMalformed, ExComment, ExTrim, ExTwoEq}

CallLoadAny(t) ==
    /\ ncalls = 0
    /\ ncalls' = 1
    /\ \E r \in LoadStreams : CallLoad(t, "p", r)

NextLoad ==
    \/ CallLoadAny(1)
    \/ LoadRead(1)
    \/ LoadReadErr(1)
    \/ LoadParse(1)
    \/ SetLock(1)
    \/ SetInsert(1)

SpecLoad == Init /\ [][NextLoad]_vars

\* thread t has returned from the call of method op with result r
Returned(t, op, r) == pc[t] = "idle" /\ call[t].op = op /\ ret[t] = r

(***************************************************************************)
(* Spec: two threads share the store "p" and make MaxCalls calls between   *)
(* them, each an arbitrary Settings method on small arguments.             *)
(***************************************************************************)
ConcKeys == {<<"a">>, <<"b">>}

ConcValues == {<<"1">>, <<"2">>}

ConcLists == {<<<<"1">>, <<"2">>>>}

\* "b = 2\n#\na=1" and "a=1\nx\n"
ConcStreams ==
    {<<"b", " ", "=", " ", "2", "\n", "#", "\n", "a", "=", "1">>,
     <<"a", "=", "1", "\n", "x", "\n">>}

Budget == ncalls < MaxCalls /\ ncalls' = ncalls + 1

ConcSetProperty(t) ==
    \E k \in ConcKeys, v \in ConcValues : Budget /\ CallSetProperty(t, "p", k, v)

ConcSetPropertySlice(t) ==
    \E k \in ConcKeys, vs \in ConcLists : Budget /\ CallSetPropertySlice(t, "p", k, vs)

ConcProperty(t) == \E k \in ConcKeys : Budget /\ CallProperty(t, "p", k)

ConcPropertySlice(t) == \E k \in ConcKeys : Budget /\ CallPropertySlice(t, "p", k)

ConcPropertyNames(t) == Budget /\ CallPropertyNames(t, "p")

ConcLoad(t) == \E r \in ConcStreams : Budget /\ CallLoad(t, "p", r)

ConcStore(t) == \E d \in Devices : Budget /\ CallStore(t, "p", d)

Next ==
    \E t \in Threads :
        \/ ConcSetProperty(t)
        \/ ConcSetPropertySlice(t)
        \/ ConcProperty(t)
        \/ ConcPropertySlice(t)
        \/ ConcPropertyNames(t)
        \/ ConcLoad(t)
        \/ ConcStore(t)
        \/ SliceJoin(t)
        \/ SetLock(t)
        \/ SetInsert(t)
        \/ PropertyLock(t)
        \/ PropertyGet(t)
        \/ PropertySliceLock(t)
        \/ PropertySliceGet(t)
        \/ NamesLock(t)
        \/ NamesCollect(t)
        \/ LoadRead(t)
        \/ LoadReadErr(t)
        \/ LoadParse(t)
        \/ StoreLock(t)
        \/ StoreEach(t)
        \/ StoreUnlock(t)
        \/ StoreWrite(t)
        \/ StoreWriteErr(t)

Spec == Init /\ [][Next]_vars

(***************************************************************************)
(* SpecSeq: the program of the crate's example (lines 8-32 and 87-111).    *)
(* One thread fills the store "p" with up to MaxEntries entries, reading   *)
(* lists back as it goes, writes it with store_to_file, loads the file     *)
(* into the new store "q" and reads "q".                                   *)
(***************************************************************************)
SeqKeys == {<<"a">>, <<" ", "a">>, <<"#", "a">>}

SeqValues == {<<"1">>, <<"1", " ">>}

SeqSets ==
    (SeqKeys \X SeqValues) \cup {<<<<>>, <<>>>>, <<HttpPort, V8081>>, <<MongoServer, MongoUrl>>}

SeqLists ==
    {<<LogLevel, <<Debug, Info, Warn>>>>,
     <<<<"l">>, <<>>>>,
     <<<<"l">>, <<<<"x">>, <<>>>>>>,
     <<<<"l">>, <<<<"x", ",", "y">>>>>>}

SeqReadKeys == {HttpPort, MongoServer, LogLevel, <<"l">>, <<"a">>}

Filling == pc[1] = "idle" /\ ~file.exists

Room(k) ==
    k \in DOMAIN object["p"] \/ Cardinality(DOMAIN object["p"]) < MaxEntries

Stored == Returned(1, "store_to_file", Ok)

Loaded ==
    \/ Returned(1, "load_from_file", Ok)
    \/ pc[1] = "idle" /\ call[1].s = "q" /\ call[1].op \in {"property", "property_slice"}

SeqSetProperty ==
    \E kv \in SeqSets : Filling /\ Room(kv[1]) /\ CallSetProperty(1, "p", kv[1], kv[2])
                        /\ UNCHANGED ncalls

SeqSetPropertySlice ==
    \E kl \in SeqLists : Filling /\ Room(kl[1]) /\ CallSetPropertySlice(1, "p", kl[1], kl[2])
                         /\ UNCHANGED ncalls

SeqPropertySlice ==
    \E k \in SeqReadKeys :
        /\ Filling /\ k \in DOMAIN object["p"] /\ CallPropertySlice(1, "p", k)
        /\ UNCHANGED ncalls

SeqStoreToFile == Filling /\ CallStoreToFile(1, "p") /\ UNCHANGED ncalls

SeqLoadFromFile ==
    (Filling \/ Stored) /\ CallLoadFromFile(1, "q") /\ UNCHANGED ncalls

SeqReadProperty ==
    \E k \in SeqReadKeys : Loaded /\ CallProperty(1, "q", k) /\ UNCHANGED ncalls

SeqReadPropertySlice ==
    \E k \in SeqReadKeys : Loaded /\ CallPropertySlice(1, "q", k) /\ UNCHANGED ncalls

NextSeq ==
    \/ SeqSetProperty
    \/ SeqSetPropertySlice
    \/ SeqPropertySlice
    \/ SeqStoreToFile
    \/ SeqLoadFromFile
    \/ SeqReadProperty
    \/ SeqReadPropertySlice
    \/ SliceJoin(1)
    \/ SetLock(1)
    \/ SetInsert(1)
    \/ PropertySliceLock(1)
    \/ PropertySliceGet(1)
    \/ PropertyLock(1)
    \/ PropertyGet(1)
    \/ FileCreate(1)
    \/ FileCreateErr(1)
    \/ StoreLock(1)
    \/ StoreEach(1)
    \/ StoreUnlock(1)
    \/ StoreWrite(1)
    \/ StoreWriteErr(1)
    \/ FileOpen(1)
    \/ LoadRead(1)
    \/ LoadReadErr(1)
    \/ LoadParse(1)

SpecSeq == Init /\ [][NextSeq]_vars

(***************************************************************************)
(* Claims about load, checked under SpecLoad.                              *)
(***************************************************************************)
\* the map of one entry
One(k, v) == [x \in {k} |-> v]

\* a line whose trimmed content is empty or starts with '#', '//' or '/*'
CommentOrBlank(l) ==
    LET s == TrimSpace(l)
    IN  \/ s = <<>>
        \/ s[1] = "#"
        \/ Len(s) >= 2 /\ s[1] = "/" /\ s[2] \in {"/", "*"}

HasEq(l) == \E i \in 1..Len(l) : l[i] = "="

\* the text of l before its first '=' and the whole text after it
BeforeFirstEq(l) == Prefix(l, Index(l, "=") - 1)

AfterFirstEq(l) == Suffix(l, Index(l, "=") + 1)

\* the step of load that parses a line: a comment or blank line leaves the
\* maps as they are and load reads on; any other line is split, and its
\* parts go to set_property or the split fails
C7_Step ==
    \A t \in Threads :
        pc[t] = "load_parse" =>
            IF CommentOrBlank(line[t])
            THEN object' = object /\ pc'[t] = "load_read" /\ br'[t] = br[t]
            ELSE /\ object' = object
                 /\ pc'[t] \in {"set_lock", "panicked"}
                 /\ pc'[t] = "set_lock" => sp'[t].key = TrimSpace(BeforeFirstEq(TrimSpace(line[t])))

\* the example of a stream with a comment and blank lines
C7_Example ==
    \A t \in Threads :
        (Returned(t, "load", Ok) /\ call[t].stream = ExComment) =>
            object[call[t].s] = One(<<"A">>, <<"1">>)

\* C7: a step of load that parses a line whose trimmed content is empty or
\* starts with '#', '//' or '/*' adds no entry, leaves the map as it is and
\* goes on to read the rest of the stream; any other line is handled as a
\* data line; loading "# comment\n\n  \nA = 1\n" into a new store gives the
\* one entry A -> "1".
C7_CommentBlankSkipped == []C7_Example /\ [][C7_Step]_vars

C7_Witness ==
    \E t \in Threads :
        /\ Returned(t, "load", Ok) /\ call[t].stream = ExComment
        /\ object[call[t].s] = One(<<"A">>, <<"1">>)

\* C3 (as claimed): a step of load that parses a non-blank, non-comment line
\* without '=' does not crash: it adds no entry and load goes on to read the
\* remaining lines.
C3_MalformedLineSkipped ==
    [][\A t \in Threads :
          (pc[t] = "load_parse" /\ ~CommentOrBlank(line[t]) /\ ~HasEq(line[t])) =>
              (pc'[t] = "load_read" /\ object' = object)]_vars

\* C4 (as claimed): a step of load that parses a data line passes to
\* set_property the trimmed text before the first '=' as the key and the
\* trimmed whole remainder after that '=' as the value.
C4_SplitAtFirstEq ==
    [][\A t \in Threads :
          (pc[t] = "load_parse" /\ ~CommentOrBlank(line[t]) /\ HasEq(line[t])) =>
              /\ pc'[t] = "set_lock"
              /\ sp'[t].key = TrimSpace(BeforeFirstEq(TrimSpace(line[t])))
              /\ sp'[t].value = TrimSpace(AfterFirstEq(TrimSpace(line[t])))]_vars

(***************************************************************************)
(* Claims about the round trip through a file, checked under SpecSeq.      *)
(***************************************************************************)
Has(x, c) == \E i \in 1..Len(x) : x[i] = c

\* the line "<key> = <value>\n"
TextLine(k, v) == k \o <<" ", "=", " ">> \o v \o <<"\n">>

\* data holds, for every key in ks, the line of its entry in m exactly once,
\* in some order, and nothing else
RECURSIVE Complete(_, _, _)
Complete(data, m, ks) ==
    IF ks = {} THEN data = <<>>
    ELSE \E k \in ks :
            /\ HasPrefix(data, TextLine(k, m[k]))
            /\ Complete(Suffix(data, Len(TextLine(k, m[k])) + 1), m, ks \ {k})

\* keys and values without '=' and newline, list elements without ','
NoSeparators(s) ==
    /\ \A k \in DOMAIN object[s] :
          /\ ~Has(k, "=") /\ ~Has(k, "\n")
          /\ ~Has(object[s][k], "=") /\ ~Has(object[s][k], "\n")
    /\ \A k \in DOMAIN sliced[s] :
          \A i \in 1..Len(sliced[s][k]) : ~Has(sliced[s][k][i], ",")

\* keys and values without white space at either end, keys that do not start
\* like a comment
NoTrimNoComment(s) ==
    \A k \in DOMAIN object[s] :
        /\ TrimSpace(k) = k
        /\ TrimSpace(object[s][k]) = object[s][k]
        /\ ~HasPrefix(k, <<"#">>) /\ ~HasPrefix(k, <<"/", "/">>) /\ ~HasPrefix(k, <<"/", "*">>)

\* the file holds everything store_to_file("p") wrote, and load_from_file
\* has returned Ok(()) on the new store "q"
RoundTripDone ==
    /\ Returned(1, "load_from_file", Ok)
    /\ file.exists /\ ~file.dev.short

\* C1 (as claimed): store followed by load into a new store gives back the
\* map, for every store whose keys and values hold no '=' and no newline
\* and whose list elements hold no ','.
C1_RoundTripAsClaimed ==
    (RoundTripDone /\ NoSeparators("p")) => object["q"] = object["p"]

\* C1 (amended): the same for the stores whose keys and values moreover have
\* no white space at either end and whose keys do not start with '#', '//'
\* or '/*', when the stream took every byte store offered.
C1_RoundTrip ==
    (RoundTripDone /\ NoSeparators("p") /\ NoTrimNoComment("p"))
        => object["q"] = object["p"]

C1_Witness ==
    /\ RoundTripDone /\ NoSeparators("p") /\ NoTrimNoComment("p")
    /\ Cardinality(DOMAIN object["p"]) = 3
    /\ object["q"] = object["p"]

ExampleMap ==
    [k \in {HttpPort, MongoServer, LogLevel} |->
        IF k = HttpPort THEN V8081
        ELSE IF k = MongoServer THEN MongoUrl
        ELSE Debug \o <<",">> \o Info \o <<",">> \o Warn]

\* C2 (as claimed): after the three calls of the example, store_to_file and
\* load_from_file into a new store, property("HttpPort") is "8081",
\* property_slice("LogLevel") is [Debug, Info, Warn] and
\* property("MongoServer") is the whole connection string.
C2_EndToEnd ==
    (/\ object["p"] = ExampleMap
     /\ file.exists /\ ~file.dev.short
     /\ pc[1] = "idle" /\ call[1].s = "q") =>
        /\ (call[1].op = "property" /\ call[1].key = HttpPort) => ret[1] = Some(V8081)
        /\ (call[1].op = "property_slice" /\ call[1].key = LogLevel)
              => ret[1] = Some(<<Debug, Info, Warn>>)
        /\ (call[1].op = "property" /\ call[1].key = MongoServer) => ret[1] = Some(MongoUrl)

\* C5: property_slice(k) on a key whose last write was
\* set_property_slice(k, vs), vs without ',' in its elements, returns vs, and
\* the list of one empty string when vs is empty.
C5_ListRoundTrip ==
    \A t \in Threads :
        LET s == call[t].s
            k == call[t].key
        IN  (/\ pc[t] = "idle" /\ call[t].op = "property_slice"
             /\ k \in DOMAIN sliced[s]
             /\ \A i \in 1..Len(sliced[s][k]) : ~Has(sliced[s][k][i], ",")) =>
                ret[t] = Some(IF sliced[s][k] = <<>> THEN <<<<>>>> ELSE sliced[s][k])

C5_Witness ==
    /\ Returned(1, "property_slice", Some(<<Debug, Info, Warn>>))
    /\ call[1].s = "p" /\ call[1].key = LogLevel
    /\ sliced["p"][LogLevel] = <<Debug, Info, Warn>>

\* C8 (as claimed): whenever store returns Ok, the stream has received the
\* complete line of every entry of the map exactly once and nothing else.
C8_StoreComplete ==
    [][(pc[1] = "store_write" /\ pc'[1] = "idle" /\ ret'[1] = Ok) =>
          Complete(file'.data, object["p"], DOMAIN object["p"])]_vars

(***************************************************************************)
(* Claims about threads sharing a store, checked under Spec.               *)
(***************************************************************************)
\* the two threads have called set_property on different keys of a new
\* store and both calls have returned
C6_BothPresent ==
    \A t1, t2 \in Threads :
        (/\ t1 # t2 /\ ncalls = 2
         /\ Returned(t1, "set_property", Unit) /\ Returned(t2, "set_property", Unit)
         /\ call[t1].key # call[t2].key) =>
            /\ DOMAIN object["p"] = {call[t1].key, call[t2].key}
            /\ object["p"][call[t1].key] = call[t1].value
            /\ object["p"][call[t2].key] = call[t2].value

\* the insert of a set_property writes its own key and no other
C6_Insert ==
    \A t \in Threads :
        (pc[t] = "set_insert" /\ pc'[t] # "set_insert") =>
            LET s == call[t].s
            IN  /\ DOMAIN object'[s] = DOMAIN object[s] \cup {sp[t].key}
                /\ object'[s][sp[t].key] = sp[t].value
                /\ \A k \in DOMAIN object[s] : k # sp[t].key => object'[s][k] = object[s][k]

\* a thread that waits for the lock waits for a thread that is inside its
\* critical section, which it can always leave
C6_Waits ==
    \A t \in Threads :
        (pc[t] = "set_lock" /\ mutex[call[t].s] # 0) =>
            /\ mutex[call[t].s] # t
            /\ pc[mutex[call[t].s]] \in
                  {"set_insert", "get_read", "getslice_read", "names_iter", "store_iter"}

\* C6: set_property(k1, v1) and set_property(k2, v2), k1 # k2, called by the
\* two threads on a new store leave exactly k1 -> v1 and k2 -> v2, however
\* their steps interleave (no lost update): each insert changes its own key
\* and nothing else, and neither call can block for ever.
C6_ConcurrentSets == []C6_BothPresent /\ []C6_Waits /\ [][C6_Insert]_vars

C6_Witness ==
    /\ ncalls = 2
    /\ Returned(1, "set_property", Unit) /\ Returned(2, "set_property", Unit)
    /\ call[1].key = <<"a">> /\ call[2].key = <<"b">>
    /\ DOMAIN object["p"] = {<<"a">>, <<"b">>}

\* store is between the emission of two entries
MidStore(t) ==
    /\ pc[t] = "store_iter"
    /\ iter[t] # {}
    /\ iter[t] # DOMAIN object[call[t].s]

\* C9 (as claimed): store gives up its exclusive access between two
\* iteration steps.
C9_LockPerStep ==
    \A t \in Threads : MidStore(t) => mutex[call[t].s] # t

\* while store iterates it holds the lock, and its buffer holds the lines
\* of the entries visited so far, as the map has them now
C9_Iterating ==
    \A t \in Threads :
        pc[t] = "store_iter" =>
            LET s == call[t].s
            IN  /\ mutex[s] = t
                /\ iter[t] \subseteq DOMAIN object[s]
                /\ Complete(buf[t], object[s], (DOMAIN object[s]) \ iter[t])

\* while store iterates the map does not change
C9_Frozen ==
    \A t \in Threads :
        pc[t] = "store_iter" => object'[call[t].s] = object[call[t].s]

\* C9 (amended): store takes exclusive access once and holds it from before
\* its first entry until after its last; a set_property of another thread
\* cannot take effect between two entries, and the buffer store builds is the
\* map as it is during the whole iteration.
C9_StoreHoldsLock == []C9_Iterating /\ [][C9_Frozen]_vars

C9_Witness ==
    /\ MidStore(1) /\ mutex["p"] = 1
    /\ pc[2] = "set_lock"

\* what one step may do to the maps
C10_Step ==
    \A s \in Stores :
        /\ DOMAIN object[s] \subseteq DOMAIN object'[s]
        /\ \A k \in DOMAIN object'[s] :
              (k \notin DOMAIN object[s] \/ object'[s][k] # object[s][k]) =>
                  \E t \in Threads :
                      /\ pc[t] = "set_insert" /\ call[t].s = s
                      /\ call[t].op \in {"set_property", "set_property_slice", "load"}
                      /\ call[t].op = "load" =>
                            k = TrimSpace(BeforeFirstEq(TrimSpace(line[t])))
                      /\ call[t].op # "load" => k = call[t].key

\* C10: no step removes a key; a key gets a new value only by the insert of
\* a set_property, set_property_slice or load that names it (for load: the
\* key of the data line it has just read); every other step, those of
\* store, property, property_slice and property_names among them, leaves
\* the maps as they are.
C10_NeverRemoved == [][C10_Step]_vars

\* load wrote a -> "1" over the "2" of an earlier set_property and kept b
C10_Witness ==
    /\ pc[1] = "panicked" /\ call[1].op = "load"
    /\ Returned(2, "set_property", Unit) /\ call[2].key = <<"a">> /\ call[2].value = <<"2">>
    /\ DOMAIN object["p"] = {<<"a">>, <<"b">>}
    /\ object["p"][<<"a">>] = <<"1">>

====
